---- MODULE Spec2Model ----
(***************************************************************************)
(* A model of parallelzipfile.py: the central-directory parser             *)
(* (_read_eocd_mmap), the standalone index builder (read_files) and the    *)
(* ParallelZipFile reader (open, close, namelist, infolist, __contains__,  *)
(* read) over a memory-mapped archive.                                     *)
(*                                                                         *)
(* Bytes are naturals below ByteRadix and a multi-byte field is the        *)
(* little-endian number of its bytes in that radix, so every record keeps  *)
(* the byte layout struct.unpack gives it (22, 46, 30 and 56 byte records, *)
(* 2, 4 and 8 byte fields).  The radix is 128 instead of 256 so that the   *)
(* all-ones 4-byte field, the zip64 sentinel, stays inside TLC's integers. *)
(***************************************************************************)
EXTENDS Integers, Sequences, FiniteSets, TLC

\* ------------------------------------------------------------------ bytes

ByteRadix == 128

MaxByte == ByteRadix - 1

Min(a, b) == IF a <= b THEN a ELSE b

Max(a, b) == IF a >= b THEN a ELSE b

\* b[lo:hi] of Python for 0 <= lo: the bounds are clamped to the length.
Slice(b, lo, hi) ==
    LET h == Min(hi, Len(b))
    IN  IF lo >= h THEN <<>> ELSE SubSeq(b, lo + 1, h)

\* b[-k:] of Python for k > 0: the last k bytes, all of b when it is shorter.
LastBytes(b, k) == Slice(b, Max(0, Len(b) - k), Len(b))

\* b.rfind(pat): the highest 0-based index where pat occurs in b, -1 if none.
RFind(b, pat) ==
    LET hits == {i \in 0..(Len(b) - Len(pat)) : SubSeq(b, i + 1, i + Len(pat)) = pat}
    IN  IF hits = {} THEN -1 ELSE CHOOSE i \in hits : \A j \in hits : j <= i

RECURSIVE LE(_)
\* struct.unpack of one little-endian unsigned field ("<H", "<I", "<Q").
LE(b) == IF b = <<>> THEN 0 ELSE Head(b) + ByteRadix * LE(Tail(b))

RECURSIVE Enc(_, _)
\* struct.pack of v as an n-byte little-endian unsigned field.
Enc(v, n) == IF n = 0 THEN <<>> ELSE <<v % ByteRadix>> \o Enc(v \div ByteRadix, n - 1)

\* 0xFFFFFFFF: the 4-byte field with every byte at its maximum.
Sentinel == LE(<<MaxByte, MaxByte, MaxByte, MaxByte>>)

RECURSIVE RStripNul(_)
\* bytes.rstrip(b"\0")
RStripNul(b) ==
    IF b # <<>> /\ b[Len(b)] = 0 THEN RStripNul(SubSeq(b, 1, Len(b) - 1)) ELSE b

\* filename_bytes.rstrip(b"\0").decode(encoding): every model byte is below
\* 128, where the first encoding tried (utf-8) maps a byte to the code point
\* of the same number and never fails; the fallbacks are not reached.
DecodeName(b) == RStripNul(b)

\* ------------------------------------------------------------- signatures

SigEOCD == <<80, 75, 5, 6>>

SigLocator == <<80, 75, 6, 7>>

SigEOCD64 == <<80, 75, 6, 6>>

SigCentral == <<80, 75, 1, 2>>

\* 0x4034B50, the local header's signature read as "<I": the bytes PK\3\4.
SigLocal == LE(<<80, 75, 3, 4>>)

EOCD_SIZE == 22

MAX_COMMENT == 65536

CENTRAL_SIZE == 46

LOCAL_SIZE == 30

EOCD64_SIZE == 56

\* ---------------------------------------------------------- the Index

\* ZipInfo.__init__
ZipInfo(filename, header_offset, CRC, compress_size, file_size) ==
    [filename |-> filename, header_offset |-> header_offset, CRC |-> CRC,
     compress_size |-> compress_size, file_size |-> file_size]

\* ZipInfo.is_dir: the name ends with "/" (byte 47).
is_dir(info) == info.filename # <<>> /\ info.filename[Len(info.filename)] = 47

\* A Dict[str, ZipInfo] is the sequence of its values in insertion order,
\* each filename occurring once.
Keys(files) == [i \in 1..Len(files) |-> files[i].filename]

\* filename in files
HasKey(files, filename) == \E i \in 1..Len(files) : files[i].filename = filename

\* files[filename], for a filename that is a key
Lookup(files, filename) ==
    files[CHOOSE i \in 1..Len(files) : files[i].filename = filename]

\* Defect: the first value stored under a key is kept.
DictSetOnce(files, info) ==
    IF HasKey(files, info.filename) THEN files ELSE Append(files, info)

\* files[filename] = info: a key the dict holds keeps its place and gets the
\* new value, a new key goes to the end.
DictSet(files, info) ==
    IF HasKey(files, info.filename)
    THEN [i \in 1..Len(files) |->
            IF files[i].filename = info.filename THEN info ELSE files[i]]
    ELSE Append(files, info)

\* ------------------------------------------------- the Directory Parser

\* The result of a call that raised: no value comes back.
Raised(kind) == [error |-> kind, files |-> <<>>]

Returned(files) == [error |-> "none", files |-> files]

\* Lines 143-158: the zip64 extra field of one central-directory entry.  The
\* first 4 bytes are dropped; a size that is the sentinel takes the first 8
\* bytes left, the header offset takes the last 8 bytes left.
Widen(uncompressed_size, compressed_size, offset, extra) ==
    LET e0 == Slice(extra, 4, Len(extra))
        us64 == uncompressed_size = Sentinel
        e1 == IF us64 THEN Slice(e0, 8, Len(e0)) ELSE e0
        cs64 == compressed_size = Sentinel
        e2 == IF cs64 THEN Slice(e1, 8, Len(e1)) ELSE e1
        off64 == offset = Sentinel
        e3 == IF off64 THEN Slice(e2, 8, Len(e2)) ELSE e2
    IN  [ok |-> /\ (us64 => Len(e0) >= 8)
                /\ (cs64 => Len(e1) >= 8)
                /\ (off64 => Len(e2) >= 8),
         file_size |-> IF us64 THEN LE(Slice(e0, 0, 8)) ELSE uncompressed_size,
         compress_size |-> IF cs64 THEN LE(Slice(e1, 0, 8)) ELSE compressed_size,
         header_offset |-> IF off64 THEN LE(LastBytes(e2, 8)) ELSE offset,
         consumed |-> Len(e0) - Len(e3)]

\* Lines 103-166: one pass of the loop over the central directory, at
\* mmap_offset: the 46-byte header, the name, the extra field, the widening.
CentralEntry(m, mmap_offset) ==
    LET header == Slice(m, mmap_offset, mmap_offset + CENTRAL_SIZE)
        o1 == mmap_offset + CENTRAL_SIZE
        crc32 == LE(Slice(header, 16, 20))
        compressed_size == LE(Slice(header, 20, 24))
        uncompressed_size == LE(Slice(header, 24, 28))
        filename_length == LE(Slice(header, 28, 30))
        extra_length == LE(Slice(header, 30, 32))
        comment_length == LE(Slice(header, 32, 34))
        offset == LE(Slice(header, 42, 46))
        filename_bytes == Slice(m, o1, o1 + filename_length)
        o2 == o1 + filename_length
        extra == Slice(m, o2, o2 + extra_length)
        w == Widen(uncompressed_size, compressed_size, offset, extra)
        none == ZipInfo(<<>>, 0, 0, 0, 0)
    IN  IF Len(header) # CENTRAL_SIZE
        THEN [error |-> "truncated", info |-> none, next |-> o1]
        ELSE IF Slice(header, 0, 4) # SigCentral
        THEN [error |-> "bad_signature", info |-> none, next |-> o1]
        ELSE IF ~w.ok
        THEN [error |-> "zip64_missing", info |-> none, next |-> o1]
        ELSE [error |-> "none",
              info |-> ZipInfo(DecodeName(filename_bytes), w.header_offset, crc32,
                               w.compress_size, w.file_size),
              next |-> o2 + extra_length + comment_length]

RECURSIVE ScanDirectory(_, _, _, _)
\* Lines 100-170: the loop "for _ in range(num_files)" from mmap_offset on,
\* with the dict built so far.
ScanDirectory(m, mmap_offset, num_files, files) ==
    IF num_files <= 0
    THEN Returned(files)
    ELSE LET e == CentralEntry(m, mmap_offset)
         IN  IF e.error # "none"
             THEN Raised(e.error)
             ELSE ScanDirectory(m, e.next, num_files - 1, DictSet(files, e.info))

\* Lines 76-96: the zip64 end-of-central-directory record, when the trailing
\* window holds a locator: <<error, num_files, directory_offset>>.
Eocd64(m, end, locator_offset) ==
    LET field == Slice(end, locator_offset + 8, locator_offset + 16)
        offset == LE(field)
        eocd64_data == Slice(m, offset, offset + EOCD64_SIZE)
    IN  IF Len(field) # 8 \/ Len(eocd64_data) # EOCD64_SIZE
        THEN [error |-> "truncated", num_files |-> 0, directory_offset |-> 0]
        ELSE IF Slice(eocd64_data, 0, 4) # SigEOCD64
        THEN [error |-> "bad_signature", num_files |-> 0, directory_offset |-> 0]
        ELSE [error |-> "none",
              num_files |-> LE(Slice(eocd64_data, 24, 32)),
              directory_offset |-> LE(Slice(eocd64_data, 48, 56))]

\* Lines 46-98: where the central directory is and how many entries it has.
Locate(m) ==
    LET end == LastBytes(m, EOCD_SIZE + MAX_COMMENT)
        offset32 == RFind(end, SigEOCD)
        eocd == Slice(end, offset32, offset32 + EOCD_SIZE)
        locator_offset == RFind(end, SigLocator)
    IN  IF offset32 < 0
        THEN [error |-> "no_eocd", num_files |-> 0, directory_offset |-> 0]
        ELSE IF Len(eocd) # EOCD_SIZE
        THEN [error |-> "truncated", num_files |-> 0, directory_offset |-> 0]
        ELSE IF locator_offset # -1
        THEN Eocd64(m, end, locator_offset)
        ELSE [error |-> "none",
              num_files |-> LE(Slice(eocd, 8, 10)),
              directory_offset |-> LE(Slice(eocd, 16, 20))]

\* _read_eocd_mmap(m)
read_eocd_mmap(m) ==
    LET d == Locate(m)
    IN  IF d.error # "none"
        THEN Raised(d.error)
        ELSE ScanDirectory(m, d.directory_offset, d.num_files, <<>>)

\* ------------------------------------------------- the Entry Extractor

Failed(kind) == [error |-> kind, data |-> <<>>]

Bytes(data) == [error |-> "none", data |-> data]

\* zlib.crc32, a library outside the repository: a checksum of the bytes that
\* fits the 4-byte field.
Crc32(data) ==
    LET RECURSIVE sum(_)
        sum(b) == IF b = <<>> THEN 1 ELSE (Head(b) + 31 * sum(Tail(b))) % 65521
    IN  sum(data)

\* zlib.decompressobj(-zlib.MAX_WBITS).decompress, a library outside the
\* repository, on streams of one final stored block: the block header byte 1,
\* LEN, its complement NLEN, then LEN literal bytes.  An input that ends
\* early gives the bytes decoded so far; a wrong header is zlib.error.
Inflate(compressed) ==
    LET len == Slice(compressed, 1, 3)
        nlen == Slice(compressed, 3, 5)
    IN  IF compressed = <<>> THEN Bytes(<<>>)
        ELSE IF compressed[1] # 1 THEN Failed("zlib_error")
        ELSE IF Len(compressed) < 5 THEN Bytes(<<>>)
        ELSE IF \E i \in 1..2 : len[i] + nlen[i] # MaxByte THEN Failed("zlib_error")
        ELSE Bytes(Slice(compressed, 5, 5 + LE(len)))

\* lzma._decode_filter_properties and LZMADecompressor(FORMAT_RAW).decompress,
\* a library outside the repository: 5 property bytes are needed, and the
\* payload decodes byte by byte under the first of them.
LzmaRaw(props, payload) ==
    IF Len(props) # 5 THEN Failed("lzma_error")
    ELSE Bytes([i \in 1..Len(payload) |->
                    (payload[i] + ByteRadix - props[1]) % ByteRadix])

\* Lines 279-285: method 14, the embedded property header and the payload.
DecodeLzma(compressed) ==
    LET head == Slice(compressed, 0, 4)
        size == LE(Slice(head, 2, 4))
    IN  IF Len(head) # 4 THEN Failed("truncated")
        ELSE IF Len(compressed) < 4 + size THEN Failed("lzma_header")
        ELSE LzmaRaw(Slice(compressed, 4, 4 + size),
                     Slice(compressed, 4 + size, Len(compressed)))

STORED == 0

DEFLATE == 8

LZMA == 14

\* Defect: a method the reader does not know is passed through as stored.
DispatchLenient(compression, compressed) ==
    IF compression = DEFLATE THEN Inflate(compressed)
    ELSE IF compression = LZMA THEN DecodeLzma(compressed)
    ELSE Bytes(compressed)

\* Lines 272-288: the branch on the local header's compression method.
Dispatch(compression, compressed) ==
    IF compression = STORED THEN Bytes(compressed)
    ELSE IF compression = DEFLATE THEN Inflate(compressed)
    ELSE IF compression = LZMA THEN DecodeLzma(compressed)
    ELSE Failed("unsupported_compression")

\* Defect: the local header's compressed size is trusted.
LocalSize(compressed_size, fileinfo) == compressed_size

\* Lines 264-265: the central directory's compressed size replaces the local
\* header's when they differ.
AuthoritativeSize(compressed_size, fileinfo) ==
    IF compressed_size # fileinfo.compress_size
    THEN fileinfo.compress_size
    ELSE compressed_size

\* Lines 249-269: the fields of a 30-byte local header, and the data window
\* they give for fileinfo: [offset, offset + compressed_size).
Window(header, fileinfo) ==
    LET filename_length == LE(Slice(header, 26, 28))
        extra_length == LE(Slice(header, 28, 30))
    IN  [signature |-> LE(Slice(header, 0, 4)),
         compression |-> LE(Slice(header, 8, 10)),
         compressed_size |-> AuthoritativeSize(LE(Slice(header, 18, 22)), fileinfo),
         offset |-> fileinfo.header_offset + LOCAL_SIZE + filename_length + extra_length]

\* read(filename) run from start to end on an open mapping m with no other
\* call in between.
ReadAlone(m, files, filename) ==
    IF ~HasKey(files, filename) THEN Failed("not_found")
    ELSE LET fileinfo == Lookup(files, filename)
             header == Slice(m, fileinfo.header_offset,
                             fileinfo.header_offset + LOCAL_SIZE)
             w == Window(header, fileinfo)
         IN  IF Len(header) < LOCAL_SIZE THEN Failed("header_too_small")
             ELSE IF w.signature # SigLocal THEN Failed("bad_signature")
             ELSE Dispatch(w.compression,
                           Slice(m, w.offset, w.offset + w.compressed_size))

\* --------------------------------------------------- archives on disk
\* The files the program is given: what a zip writer (test.py writes its
\* archive with zipfile.ZipFile) puts on disk for a list of entries, and the
\* ways such a file can be damaged.  An entry is
\*   [name, method, content, local_cs, local_extra, wide, given, tail]:
\* wide are the fields whose 32-bit central-directory value is the sentinel,
\* given the fields whose 64-bit value the zip64 extra block holds, tail the
\* bytes of the extra field that follow them (another extra block).

PROPS == <<93, 0, 0, 1, 0>>

\* The stream a writer stores for content under a compression method; an
\* unsupported method's stream is opaque to the reader.
Compress(method, content) ==
    IF method = DEFLATE
    THEN <<1>> \o Enc(Len(content), 2)
              \o [i \in 1..2 |-> MaxByte - Enc(Len(content), 2)[i]] \o content
    ELSE IF method = LZMA
    THEN <<9, 4>> \o Enc(Len(PROPS), 2) \o PROPS
              \o [i \in 1..Len(content) |-> (content[i] + PROPS[1]) % ByteRadix]
    ELSE content

Field32(e, f, v) == IF f \in e.wide THEN Sentinel ELSE v

LocalRecord(e) ==
    LET c == Compress(e.method, e.content)
        cs == IF e.local_cs = "zero" THEN 0 ELSE Field32(e, "cs", Len(c))
    IN  <<80, 75, 3, 4>> \o Enc(20, 2) \o Enc(0, 2) \o Enc(e.method, 2)
            \o Enc(0, 2) \o Enc(33, 2) \o Enc(Crc32(e.content), 4)
            \o Enc(cs, 4) \o Enc(Field32(e, "us", Len(e.content)), 4)
            \o Enc(Len(e.name), 2) \o Enc(Len(e.local_extra), 2)
            \o e.name \o e.local_extra \o c

\* The extra field of a central-directory entry: the zip64 block (id 1, its
\* size, the given 64-bit fields in the order uncompressed size, compressed
\* size, header offset), then the tail.
CentralExtra(e, offset) ==
    LET fields == (IF "us" \in e.given THEN Enc(Len(e.content), 8) ELSE <<>>)
               \o (IF "cs" \in e.given
                   THEN Enc(Len(Compress(e.method, e.content)), 8) ELSE <<>>)
               \o (IF "off" \in e.given THEN Enc(offset, 8) ELSE <<>>)
    IN  (IF fields = <<>> THEN <<>> ELSE Enc(1, 2) \o Enc(Len(fields), 2) \o fields)
            \o e.tail

CentralRecord(e, offset) ==
    LET extra == CentralExtra(e, offset)
    IN  SigCentral \o Enc(20, 2) \o Enc(20, 2) \o Enc(0, 2) \o Enc(e.method, 2)
            \o Enc(0, 2) \o Enc(33, 2) \o Enc(Crc32(e.content), 4)
            \o Enc(Field32(e, "cs", Len(Compress(e.method, e.content))), 4)
            \o Enc(Field32(e, "us", Len(e.content)), 4)
            \o Enc(Len(e.name), 2) \o Enc(Len(extra), 2) \o Enc(0, 2)
            \o Enc(0, 2) \o Enc(0, 2) \o Enc(0, 4)
            \o Enc(Field32(e, "off", offset), 4)
            \o e.name \o extra

RECURSIVE LocalRecords(_)
LocalRecords(entries) ==
    IF entries = <<>> THEN <<>>
    ELSE LocalRecord(Head(entries)) \o LocalRecords(Tail(entries))

\* The offset of entry i's local header.
HeaderOffset(entries, i) == Len(LocalRecords(SubSeq(entries, 1, i - 1)))

RECURSIVE CentralRecords(_, _)
CentralRecords(entries, i) ==
    IF i > Len(entries) THEN <<>>
    ELSE CentralRecord(entries[i], HeaderOffset(entries, i))
            \o CentralRecords(entries, i + 1)

\* The end of the archive: the zip64 record and its locator when zip64 is
\* set, then the 22-byte end-of-central-directory record.  count is the
\* number of entries the records declare.
EndRecords(count, dir_size, dir_offset, zip64) ==
    (IF zip64
     THEN SigEOCD64 \o Enc(44, 8) \o Enc(45, 2) \o Enc(45, 2) \o Enc(0, 4)
             \o Enc(0, 4) \o Enc(count, 8) \o Enc(count, 8) \o Enc(dir_size, 8)
             \o Enc(dir_offset, 8)
             \o SigLocator \o Enc(0, 4) \o Enc(dir_offset + dir_size, 8) \o Enc(1, 4)
     ELSE <<>>)
        \o SigEOCD \o Enc(0, 2) \o Enc(0, 2) \o Enc(count, 2) \o Enc(count, 2)
        \o Enc(dir_size, 4) \o Enc(dir_offset, 4) \o Enc(0, 2)

\* The bytes of b with the byte at 0-based index i replaced by v.
Poke(b, i, v) == [b EXCEPT ![i + 1] = v]

\* The file for an archive description [entries, zip64, damage].
WriteArchive(a) ==
    LET data == LocalRecords(a.entries)
        dir == CentralRecords(a.entries, 1)
        count == IF a.damage = "count" THEN Len(a.entries) + 1 ELSE Len(a.entries)
        tail == EndRecords(count, Len(dir), Len(data), a.zip64)
        whole == data \o dir \o tail
    IN  IF a.damage = "empty" THEN <<>>
        ELSE IF a.damage = "no_eocd" THEN Poke(whole, Len(whole) - EOCD_SIZE, 0)
        ELSE IF a.damage = "central_signature" THEN Poke(whole, Len(data) + 2, 0)
        ELSE IF a.damage = "eocd64_signature" THEN Poke(whole, Len(data) + Len(dir) + 2, 0)
        ELSE IF a.damage = "cut" THEN SubSeq(whole, Len(whole) - EOCD_SIZE + 1, Len(whole))
        ELSE whole

\* ------------------------------------------------------------- inputs

Entry(name, method, content, local_cs, local_extra, wide, given, tail) ==
    [name |-> name, method |-> method, content |-> content, local_cs |-> local_cs,
     local_extra |-> local_extra, wide |-> wide, given |-> given, tail |-> tail]

Archive(entries, zip64, damage) ==
    [entries |-> entries, zip64 |-> zip64, damage |-> damage]

NameA == <<97>>

NameB == <<98>>

NameMissing == <<122>>

\* The names callers ask for: two the archives hold, one none holds.
AskedNames == {NameA, NameB, NameMissing}

UNSUPPORTED == 99

\* Archives a conformant writer produces, two entries each: the first stored
\* or deflated, the second (with a local extra field) LZMA or of the
\* unsupported method 99; a writer may leave the local header's compressed
\* size zero.
SoundArchives ==
    {Archive(<<Entry(NameA, ma, <<104, 105>>, lcs, <<>>, {}, {}, <<>>),
               Entry(NameB, mb, <<1, 2, 3>>, lcs, <<7, 7>>, {}, {}, <<>>)>>,
             FALSE, "none") :
        ma \in {STORED, DEFLATE}, mb \in {LZMA, UNSUPPORTED}, lcs \in {"same", "zero"}}

\* The same archives with or without the zip64 end records, whole or damaged:
\* no file content at all, the end-of-central-directory signature gone, the
\* first central-directory signature or the zip64 record's signature wrong,
\* only the last 22 bytes left, or one entry more declared than written.
Damages ==
    {"none", "empty", "no_eocd", "central_signature", "eocd64_signature", "cut", "count"}

DamagedArchives ==
    {Archive(<<Entry(NameA, DEFLATE, <<104, 105>>, "same", <<>>, {}, {}, <<>>),
               Entry(NameB, mb, <<1, 2, 3>>, "zero", <<7, 7>>, {}, {}, <<>>)>>,
             zip64, damage) :
        mb \in {LZMA, UNSUPPORTED}, zip64 \in BOOLEAN, damage \in Damages}

\* An extra block that is not the zip64 one: the extended timestamp block
\* "UT" (id, size 5, flags, a 4-byte time).
TimestampBlock == <<85, 84, 5, 0, 3, 0, 0, 0, 0>>

Zip64Fields == {"us", "cs", "off"}

\* Archives whose second entry has every combination of sentinel fields,
\* 64-bit values given in its zip64 block, and a further extra block or none.
Zip64Archives ==
    {Archive(<<Entry(NameB, STORED, <<1, 2, 3>>, "same", <<>>, {}, {}, <<>>),
               Entry(NameA, STORED, <<104, 105>>, "same", <<>>, wide, given, tail)>>,
             FALSE, "none") :
        wide \in SUBSET Zip64Fields, given \in SUBSET Zip64Fields,
        tail \in {<<>>, TimestampBlock}}

\* The names a directory may repeat; the second ends in a NUL byte, which the
\* parser strips.
ScanNames == {NameA, <<97, 0>>, NameB}

\* Archives of three stored entries, each of a content of its own, whose
\* names may repeat.
RepeatingArchives ==
    {Archive(<<Entry(n1, STORED, <<1>>, "same", <<>>, {}, {}, <<>>),
               Entry(n2, STORED, <<2, 2>>, "same", <<>>, {}, {}, <<>>),
               Entry(n3, STORED, <<3, 3, 3>>, "same", <<>>, {}, {}, <<>>)>>,
             FALSE, "none") :
        n1 \in ScanNames, n2 \in ScanNames, n3 \in ScanNames}

AllArchives == DamagedArchives \cup Zip64Archives \cup RepeatingArchives

\* ------------------------------------------------------------- state

NumThreads == 2

Threads == 1..NumThreads

\* The two Readers of a run: one parses the directory itself, one is given
\* the Index read_files returned.
Own == "own"

Given == "given"

Readers == {Own, Given}

VARIABLES
    archive,    \* the description the file on disk was written from
    disk,       \* the bytes of the file on disk
    readers,    \* the ParallelZipFile objects: state, files, f, m
    built,      \* the call of read_files: state, files, f, m
    pc,         \* where each thread stands in read
    arg,        \* the filename each thread called read with
    late,       \* whether that call began after close had returned
    slices,     \* how many slices of the mapping that call has taken
    frame,      \* the local variables of the running calls of read
    result,     \* what read gave each thread: bytes or the error raised
    returned    \* what the last other call gave its caller

vars ==
    <<archive, disk, readers, built, pc, arg, late, slices, frame, result, returned>>

\* ------------------------------------------------- the Reader's methods

\* The optional argument files of __init__: None, or a dict.
None == [some |-> FALSE, files |-> <<>>]

Some(files) == [some |-> TRUE, files |-> files]

\* A ParallelZipFile that has not been constructed.  parsed records whether
\* its constructor ran the Directory Parser, closes how often close() has
\* been called on it.
Absent ==
    [state |-> "absent", error |-> "none", files |-> <<>>, f |-> "none",
     m |-> "none", parsed |-> FALSE, closes |-> 0]

\* Defect: the constructor parses the directory whether or not it is given
\* an Index.
init_parsing(bytes, mode, files) ==
    IF mode # "r"
    THEN [Absent EXCEPT !.state = "failed", !.error = "bad_mode"]
    ELSE [state |-> IF read_eocd_mmap(bytes).error = "none" THEN "ready" ELSE "failed",
          error |-> read_eocd_mmap(bytes).error, files |-> read_eocd_mmap(bytes).files,
          f |-> "open", m |-> "open", parsed |-> TRUE, closes |-> 0]

\* ParallelZipFile.__init__(file, mode, files) on a file of the given bytes:
\* the object constructed, or, when the call raises, the error and the file
\* object f and mapping m the call had opened by then (nothing closes them
\* on that path).  mmap.mmap raises ValueError for an empty file.
init(bytes, mode, files) ==
    IF mode # "r"
    THEN [Absent EXCEPT !.state = "failed", !.error = "bad_mode"]
    ELSE IF bytes = <<>>
    THEN [Absent EXCEPT !.state = "failed", !.error = "empty_file", !.f = "open"]
    ELSE IF ~files.some
    THEN LET parse == read_eocd_mmap(bytes)
         IN  [state |-> IF parse.error = "none" THEN "ready" ELSE "failed",
              error |-> parse.error, files |-> parse.files,
              f |-> "open", m |-> "open", parsed |-> TRUE, closes |-> 0]
    ELSE [state |-> "ready", error |-> "none", files |-> files.files,
          f |-> "open", m |-> "open", parsed |-> FALSE, closes |-> 0]

\* read_files(filename): both with-blocks have closed what they opened when
\* the call returns or raises.
read_files(bytes) ==
    IF bytes = <<>>
    THEN [state |-> "raised", error |-> "empty_file", files |-> <<>>,
          f |-> "closed", m |-> "none"]
    ELSE LET parse == read_eocd_mmap(bytes)
         IN  [state |-> IF parse.error = "none" THEN "returned" ELSE "raised",
              error |-> parse.error, files |-> parse.files,
              f |-> "closed", m |-> "closed"]

\* Defect: close releases the file object and leaves the mapping open.
close_keeps_mapping(self) == [self EXCEPT !.f = "closed"]

\* ParallelZipFile.close: self.m is the mapping __init__ made, never bytes;
\* closing a closed mapping or file object does nothing.
close(self) == [self EXCEPT !.m = "closed", !.f = "closed"]

\* Defect: membership answers whether the Index holds anything at all.
contains_nonempty(self, filename) == self.files # <<>>

\* ParallelZipFile.__contains__
contains(self, filename) == HasKey(self.files, filename)

\* ParallelZipFile.namelist: list(...) makes a new list on every call.
namelist(self) == [fresh |-> TRUE, items |-> Keys(self.files)]

\* Defect: the Index's own list of values is handed out.
infolist_shared(self) == [fresh |-> FALSE, items |-> self.files]

\* ParallelZipFile.infolist: list(...) makes a new list on every call.
infolist(self) == [fresh |-> TRUE, items |-> self.files]

\* ParallelZipFile.read(filename) as one call with no other in between: a
\* closed mapping raises ValueError at its first slice.
read(bytes, self, filename) ==
    IF ~HasKey(self.files, filename) THEN Failed("not_found")
    ELSE IF self.m # "open" THEN Failed("closed")
    ELSE ReadAlone(bytes, self.files, filename)

\* ------------------------------------ threads reading from one Reader

\* The Reader the threads share.
Z == Own

\* Defect: the working values are kept in one place all calls share (as
\* attributes of the Reader would be).
SharedFrame(t) == 1

\* The locals of a call of read live in the frame of that call: one frame
\* per running call, so per thread.
Frame(t) == t

NoLocals ==
    [filename |-> <<>>, fileinfo |-> ZipInfo(<<>>, 0, 0, 0, 0), header |-> <<>>,
     offset |-> 0, compressed_size |-> 0, compressed |-> <<>>]

NoResult == [error |-> "pending", data |-> <<>>]

NoReturn == [op |-> "none", reader |-> "none", arg |-> <<>>, value |-> <<>>]

\* read_files has not been called.
NotBuilt ==
    [state |-> "none", error |-> "none", files |-> <<>>, f |-> "none", m |-> "none"]

\* read raises or returns: the thread gets out, its caller holds out.
Finish(t, out) ==
    /\ pc' = [pc EXCEPT ![t] = "done"]
    /\ result' = [result EXCEPT ![t] = out]

\* Lines 230-239: the lookup of filename in self.files.
ReadLookup(t, filename) ==
    /\ pc[t] = "idle"
    /\ readers[Z].state = "ready"
    /\ arg' = [arg EXCEPT ![t] = filename]
    /\ late' = [late EXCEPT ![t] = readers[Z].closes > 0]
    /\ slices' = [slices EXCEPT ![t] = 0]
    /\ IF ~HasKey(readers[Z].files, filename)
       THEN /\ Finish(t, Failed("not_found"))
            /\ UNCHANGED frame
       ELSE /\ frame' = [frame EXCEPT ![Frame(t)] =
                    [NoLocals EXCEPT
                        !.filename = filename,
                        !.fileinfo = Lookup(readers[Z].files, filename),
                        !.offset = Lookup(readers[Z].files, filename).header_offset]]
            /\ pc' = [pc EXCEPT ![t] = "header"]
            /\ UNCHANGED result
    /\ UNCHANGED <<archive, disk, readers, built, returned>>

\* Lines 241-247: the 30 bytes of the local header, sliced from the mapping.
ReadHeader(t) ==
    LET loc == frame[Frame(t)]
        header == Slice(disk, loc.offset, loc.offset + LOCAL_SIZE)
    IN  /\ pc[t] = "header"
        /\ slices' = [slices EXCEPT ![t] = IF readers[Z].m = "open" THEN 1 ELSE @]
        /\ IF readers[Z].m # "open"
           THEN /\ Finish(t, Failed("closed"))
                /\ UNCHANGED frame
           ELSE IF Len(header) < LOCAL_SIZE
           THEN /\ Finish(t, Failed("header_too_small"))
                /\ UNCHANGED frame
           ELSE /\ frame' = [frame EXCEPT ![Frame(t)].header = header]
                /\ pc' = [pc EXCEPT ![t] = "window"]
                /\ UNCHANGED result
        /\ UNCHANGED <<archive, disk, readers, built, arg, late, returned>>

\* Lines 249-288: the header's fields, the data window sliced from the
\* mapping, the signature check and the decompression.
ReadWindow(t) ==
    LET loc == frame[Frame(t)]
        w == Window(loc.header, loc.fileinfo)
        compressed == Slice(disk, w.offset, w.offset + w.compressed_size)
    IN  /\ pc[t] = "window"
        /\ slices' = [slices EXCEPT ![t] = IF readers[Z].m = "open" THEN 2 ELSE @]
        /\ IF readers[Z].m # "open"
           THEN /\ Finish(t, Failed("closed"))
                /\ UNCHANGED frame
           ELSE /\ frame' = [frame EXCEPT ![Frame(t)].offset = w.offset,
                                          ![Frame(t)].compressed_size = w.compressed_size,
                                          ![Frame(t)].compressed = compressed]
                /\ Finish(t, IF w.signature # SigLocal
                             THEN Failed("bad_signature")
                             ELSE Dispatch(w.compression, compressed))
        /\ UNCHANGED <<archive, disk, readers, built, arg, late, returned>>

\* The caller takes what read gave it; the frame of the call is gone.
ReadReturn(t) ==
    /\ pc[t] = "done"
    /\ pc' = [pc EXCEPT ![t] = "idle"]
    /\ result' = [result EXCEPT ![t] = NoResult]
    /\ arg' = [arg EXCEPT ![t] = <<>>]
    /\ late' = [late EXCEPT ![t] = FALSE]
    /\ slices' = [slices EXCEPT ![t] = 0]
    /\ frame' = [frame EXCEPT ![Frame(t)] = NoLocals]
    /\ UNCHANGED <<archive, disk, readers, built, returned>>

MaxCloses == 2

\* A thread calls close().
Close(t) ==
    /\ pc[t] = "idle"
    /\ readers[Z].state = "ready"
    /\ readers[Z].closes < MaxCloses
    /\ readers' = [readers EXCEPT ![Z] = [close(readers[Z]) EXCEPT !.closes = @ + 1]]
    /\ returned' = [NoReturn EXCEPT !.op = "close", !.reader = Z]
    /\ UNCHANGED <<archive, disk, built, pc, arg, late, slices, frame, result>>

\* A thread calls filename in z, z.namelist() or z.infolist().
Contains(t, filename) ==
    /\ pc[t] = "idle"
    /\ readers[Z].state = "ready"
    /\ returned' = [op |-> "contains", reader |-> Z, arg |-> filename,
                    value |-> contains(readers[Z], filename)]
    /\ UNCHANGED <<archive, disk, readers, built, pc, arg, late, slices, frame, result>>

Namelist(t) ==
    /\ pc[t] = "idle"
    /\ readers[Z].state = "ready"
    /\ returned' = [NoReturn EXCEPT !.op = "namelist", !.reader = Z,
                                    !.value = namelist(readers[Z])]
    /\ UNCHANGED <<archive, disk, readers, built, pc, arg, late, slices, frame, result>>

Infolist(t) ==
    /\ pc[t] = "idle"
    /\ readers[Z].state = "ready"
    /\ returned' = [NoReturn EXCEPT !.op = "infolist", !.reader = Z,
                                    !.value = infolist(readers[Z])]
    /\ UNCHANGED <<archive, disk, readers, built, pc, arg, late, slices, frame, result>>

\* The caller deletes the first item of the list it was given (del l[0]).  A
\* list object of the caller's own loses the item; were the list the Index's
\* own, the Index would lose it.
Modify ==
    /\ returned.op \in {"namelist", "infolist"}
    /\ returned.value.items # <<>>
    /\ returned' = [returned EXCEPT !.op = "modified",
                                    !.value.items = Tail(returned.value.items)]
    /\ readers' = IF returned.value.fresh
                  THEN readers
                  ELSE [readers EXCEPT ![returned.reader].files = Tail(@)]
    /\ UNCHANGED <<archive, disk, built, pc, arg, late, slices, frame, result>>

Init ==
    /\ archive \in SoundArchives
    /\ disk = WriteArchive(archive)
    /\ readers = [r \in Readers |-> IF r = Z THEN init(disk, "r", None) ELSE Absent]
    /\ built = NotBuilt
    /\ pc = [t \in Threads |-> "idle"]
    /\ arg = [t \in Threads |-> <<>>]
    /\ late = [t \in Threads |-> FALSE]
    /\ slices = [t \in Threads |-> 0]
    /\ frame = [t \in Threads |-> NoLocals]
    /\ result = [t \in Threads |-> NoResult]
    /\ returned = NoReturn

Next ==
    \/ \E t \in Threads, filename \in AskedNames : ReadLookup(t, filename)
    \/ \E t \in Threads : ReadHeader(t)
    \/ \E t \in Threads : ReadWindow(t)
    \/ \E t \in Threads : ReadReturn(t)
    \/ \E t \in Threads : Close(t)
    \/ \E t \in Threads, filename \in AskedNames : Contains(t, filename)
    \/ \E t \in Threads : Namelist(t)
    \/ \E t \in Threads : Infolist(t)
    \/ Modify

Spec == Init /\ [][Next]_vars

\* ------------------------------------- opening, indexing and closing

Modes == {"r", "w"}

\* files = read_files(filename)
BuildIndex ==
    /\ built.state = "none"
    /\ built' = read_files(disk)
    /\ UNCHANGED <<archive, disk, readers, pc, arg, late, slices, frame, result, returned>>

\* ParallelZipFile(filename, mode): the Reader parses the directory itself.
OpenParsed(mode) ==
    /\ readers[Own].state = "absent"
    /\ readers' = [readers EXCEPT ![Own] = init(disk, mode, None)]
    /\ UNCHANGED <<archive, disk, built, pc, arg, late, slices, frame, result, returned>>

\* ParallelZipFile(filename, mode, files=files): the Reader is given the Index
\* read_files returned.
OpenPrebuilt(mode) ==
    /\ readers[Given].state = "absent"
    /\ built.state = "returned"
    /\ readers' = [readers EXCEPT ![Given] = init(disk, mode, Some(built.files))]
    /\ UNCHANGED <<archive, disk, built, pc, arg, late, slices, frame, result, returned>>

\* z.close()
Shut(r) ==
    /\ readers[r].state = "ready"
    /\ readers[r].closes < MaxCloses
    /\ readers' = [readers EXCEPT ![r] = [close(readers[r]) EXCEPT !.closes = @ + 1]]
    /\ UNCHANGED <<archive, disk, built, pc, arg, late, slices, frame, result, returned>>

\* The file object and mapping of a constructor call that raised are closed
\* when the runtime finalizes them, at a time of its own choosing.
Collect(r) ==
    /\ readers[r].state = "failed"
    /\ readers[r].f = "open" \/ readers[r].m = "open"
    /\ readers' = [readers EXCEPT ![r].f = IF @ = "open" THEN "closed" ELSE @,
                                  ![r].m = IF @ = "open" THEN "closed" ELSE @]
    /\ UNCHANGED <<archive, disk, built, pc, arg, late, slices, frame, result, returned>>

\* What the call op with argument filename gives on a Reader.
Answer(self, op, filename) ==
    IF op = "contains" THEN contains(self, filename)
    ELSE IF op = "namelist" THEN namelist(self)
    ELSE IF op = "infolist" THEN infolist(self)
    ELSE read(disk, self, filename)

\* A caller asks Reader r: filename in z, z.namelist(), z.infolist() or
\* z.read(filename).
Ask(r, op, filename) ==
    /\ readers[r].state = "ready"
    /\ op \in {"namelist", "infolist"} => filename = <<>>
    /\ op \in {"contains", "read"} => filename # <<>>
    /\ returned' = [op |-> op, reader |-> r, arg |-> filename,
                    value |-> Answer(readers[r], op, filename)]
    /\ UNCHANGED <<archive, disk, readers, built, pc, arg, late, slices, frame, result>>

InitOpen ==
    /\ archive \in AllArchives
    /\ disk = WriteArchive(archive)
    /\ readers = [r \in Readers |-> Absent]
    /\ built = NotBuilt
    /\ pc = [t \in Threads |-> "idle"]
    /\ arg = [t \in Threads |-> <<>>]
    /\ late = [t \in Threads |-> FALSE]
    /\ slices = [t \in Threads |-> 0]
    /\ frame = [t \in Threads |-> NoLocals]
    /\ result = [t \in Threads |-> NoResult]
    /\ returned = NoReturn

NextOpen ==
    \/ BuildIndex
    \/ \E mode \in Modes : OpenParsed(mode)
    \/ \E mode \in Modes : OpenPrebuilt(mode)
    \/ \E r \in Readers : Shut(r)
    \/ \E r \in Readers : Collect(r)
    \/ \E r \in Readers, op \in {"contains", "namelist", "infolist", "read"},
          filename \in AskedNames \cup {<<>>} : Ask(r, op, filename)

SpecOpen == InitOpen /\ [][NextOpen]_vars

\* ------------------------------------------------ properties of Spec

\* A step of some thread inside read.
Reading ==
    \/ \E t \in Threads, filename \in AskedNames : ReadLookup(t, filename)
    \/ \E t \in Threads : ReadHeader(t) \/ ReadWindow(t) \/ ReadReturn(t)

\* The entries a conformant writer stored under filename with a method the
\* reader supports.
Supported(filename) ==
    \E i \in 1..Len(archive.entries) :
        /\ DecodeName(archive.entries[i].name) = filename
        /\ archive.entries[i].method \in {STORED, DEFLATE, LZMA}

\* What a finished read of thread t on the open Reader must have given.
ReadsAsAlone(t) ==
    /\ result[t] = ReadAlone(disk, readers[Z].files, arg[t])
    /\ Supported(arg[t]) =>
          /\ result[t].error = "none"
          /\ Crc32(result[t].data) = Lookup(readers[Z].files, arg[t]).CRC

\* C1: with any number of threads reading from the same open Reader, under
\* every interleaving of their steps, a finished read has given exactly what
\* the same read gives when run alone, so the bytes of an entry with their
\* declared crc32; and no step of read changes anything the threads share
\* (the file's bytes, the Reader, the Index).
C1_ConcurrentReads ==
    /\ [](\A t \in Threads :
            (pc[t] = "done" /\ readers[Z].m = "open") => ReadsAsAlone(t))
    /\ [][Reading => UNCHANGED <<archive, disk, readers, built, returned>>]_vars

\* Two threads have finished overlapping reads of different entries, both
\* with bytes.
C1_Witness ==
    /\ readers[Z].m = "open"
    /\ \E t, u \in Threads :
          /\ pc[t] = "done" /\ pc[u] = "done"
          /\ arg[t] = NameA /\ arg[u] = NameB
          /\ result[t].error = "none" /\ result[u].error = "none"
          /\ result[t].data # result[u].data

\* C2 as stated: a read that began after close() had returned fails with the
\* closed-resource error, whatever the name.
C2_Original ==
    \A t \in Threads :
        (pc[t] = "done" /\ late[t]) => result[t] = Failed("closed")

\* C2 amended: once close() has been called, one or more times, the mapping
\* and the file object are closed and stay so, and a read that began after
\* it fails without bytes: with the closed-resource error when the name is a
\* key of the Index, with the not-found error when it is not.
C2_ReadAfterClose ==
    /\ readers[Z].closes > 0 =>
          /\ readers[Z].state = "ready"
          /\ readers[Z].m = "closed"
          /\ readers[Z].f = "closed"
    /\ \A t \in Threads :
          (pc[t] = "done" /\ late[t]) =>
              result[t] = Failed(IF HasKey(readers[Z].files, arg[t])
                                 THEN "closed" ELSE "not_found")

\* close() was called twice and a read of a stored name begun after it has
\* failed.
C2_Witness ==
    /\ readers[Z].closes = 2
    /\ \E t \in Threads :
          /\ pc[t] = "done" /\ late[t] /\ arg[t] = NameA
          /\ result[t].error = "closed"

\* The compressed-size field of the local header at offset.
LocalCompressedSize(offset) == LE(Slice(disk, offset + 18, offset + 22))

\* C4: the window a read has sliced starts at header_offset + 30 +
\* name_length + extra_length, the lengths being the local header's, and
\* runs for the compressed size of the Index entry, whatever the local
\* header's compressed size says; its bytes are those of the file in that
\* range (all of them when the file holds the range), and an entry of a
\* supported method decompresses.
C4_AuthoritativeSize ==
    \A t \in Threads :
        (pc[t] = "done" /\ slices[t] = 2) =>
            LET fileinfo == Lookup(readers[Z].files, arg[t])
                at == fileinfo.header_offset
                start == at + LOCAL_SIZE + LE(Slice(disk, at + 26, at + 28))
                            + LE(Slice(disk, at + 28, at + 30))
                loc == frame[Frame(t)]
            IN  /\ loc.offset = start
                /\ loc.compressed_size = fileinfo.compress_size
                /\ loc.compressed = Slice(disk, start, start + fileinfo.compress_size)
                /\ start + fileinfo.compress_size <= Len(disk) =>
                      Len(loc.compressed) = fileinfo.compress_size
                /\ Supported(arg[t]) => result[t].error = "none"

\* A read has sliced its window for an entry whose local header gives a
\* compressed size other than the Index's, and returned bytes.
C4_Witness ==
    \E t \in Threads :
        /\ pc[t] = "done" /\ slices[t] = 2
        /\ result[t].error = "none"
        /\ Len(result[t].data) > 0
        /\ LocalCompressedSize(Lookup(readers[Z].files, arg[t]).header_offset)
              # Lookup(readers[Z].files, arg[t]).compress_size

\* The compression method of the local header of the entry filename names.
LocalMethod(filename) ==
    LE(Slice(disk, Lookup(readers[Z].files, filename).header_offset + 8,
             Lookup(readers[Z].files, filename).header_offset + 10))

\* Thread t has finished, on the open Reader, a read of an entry whose method
\* is none of 0, 8 and 14.
UnsupportedRead(t) ==
    /\ pc[t] = "done" /\ slices[t] = 2
    /\ LocalMethod(arg[t]) \notin {STORED, DEFLATE, LZMA}

\* C5: a read of an entry whose method is not 0, 8 or 14 fails with the
\* unsupported-compression error and no bytes; the Index is then the one the
\* parser built and the file's bytes are the ones written, and every other
\* thread's finished read on the open Reader has given what it gives alone.
C5_UnsupportedIsLocal ==
    \A t \in Threads :
        UnsupportedRead(t) =>
            /\ result[t] = Failed("unsupported_compression")
            /\ readers[Z].files = read_eocd_mmap(disk).files
            /\ disk = WriteArchive(archive)
            /\ \A u \in Threads \ {t} :
                  (pc[u] = "done" /\ readers[Z].m = "open") => ReadsAsAlone(u)

\* One thread's read of the method-99 entry has failed and another thread's
\* read of the other entry has returned its bytes.
C5_Witness ==
    \E t, u \in Threads :
        /\ UnsupportedRead(t) /\ LocalMethod(arg[t]) = UNSUPPORTED
        /\ result[t].error = "unsupported_compression"
        /\ pc[u] = "done" /\ arg[u] = NameA /\ result[u] = Bytes(<<104, 105>>)

\* C6: read(name) fails with the not-found error exactly when name is no key
\* of the Index, that is when contains(name) is false; it has then taken no
\* slice of the mapping, and the lookup changes nothing shared.
C6_MissingName ==
    /\ [](\A t \in Threads :
            pc[t] = "done" =>
                /\ result[t].error = "not_found" <=> ~contains(readers[Z], arg[t])
                /\ result[t].error = "not_found" => slices[t] = 0)
    /\ [][(\E t \in Threads, filename \in AskedNames : ReadLookup(t, filename))
            => UNCHANGED <<disk, readers>>]_vars

\* On the open Reader one read of a missing name has failed and one of a
\* stored name has not.
C6_Witness ==
    /\ readers[Z].m = "open"
    /\ \E t, u \in Threads :
          /\ pc[t] = "done" /\ arg[t] = NameMissing /\ result[t].error = "not_found"
          /\ pc[u] = "done" /\ arg[u] = NameA /\ result[u].error = "none"

\* C9: no step of any thread (read, contains, names, entries, close, or a
\* caller changing a list it was given) changes the Index of the constructed
\* Reader, and the lists names() and entries() give are new ones.
C9_IndexImmutable ==
    /\ [][readers'[Z].files = readers[Z].files]_vars
    /\ [](returned.op \in {"namelist", "infolist"} => returned.value.fresh)

\* A caller has changed the list it was given, the Reader is closed, and
\* reads have failed and succeeded.
C9_Witness ==
    /\ returned.op = "modified"
    /\ readers[Z].closes > 0
    /\ \E t, u \in Threads :
          /\ pc[t] = "done" /\ result[t].error = "closed"
          /\ pc[u] = "done" /\ result[u].error = "none"

\* ---------------------------------------------- properties of SpecOpen

\* The entries of the archive on disk, in the order of its central
\* directory, and the offsets of their local headers.
Written == archive.entries

WrittenName(i) == DecodeName(Written[i].name)

\* The widening as C3 states it: each sentinel field, in the order
\* uncompressed size, compressed size, header offset, takes the next 8 bytes
\* not yet consumed of the extra data after its 4-byte block header.
WidenAsStated(uncompressed_size, compressed_size, offset, extra) ==
    LET e0 == Slice(extra, 4, Len(extra))
        us64 == uncompressed_size = Sentinel
        e1 == IF us64 THEN Slice(e0, 8, Len(e0)) ELSE e0
        cs64 == compressed_size = Sentinel
        e2 == IF cs64 THEN Slice(e1, 8, Len(e1)) ELSE e1
        off64 == offset = Sentinel
    IN  [ok |-> /\ (us64 => Len(e0) >= 8)
                /\ (cs64 => Len(e1) >= 8)
                /\ (off64 => Len(e2) >= 8),
         file_size |-> IF us64 THEN LE(Slice(e0, 0, 8)) ELSE uncompressed_size,
         compress_size |-> IF cs64 THEN LE(Slice(e1, 0, 8)) ELSE compressed_size,
         header_offset |-> IF off64 THEN LE(Slice(e2, 0, 8)) ELSE offset]

\* What C3 says the parser makes of entry i of the archive on disk.
Stated(i) ==
    LET e == Written[i]
        at == HeaderOffset(Written, i)
    IN  WidenAsStated(Field32(e, "us", Len(e.content)),
                      Field32(e, "cs", Len(Compress(e.method, e.content))),
                      Field32(e, "off", at), CentralExtra(e, at))

\* C3: the Directory Parser, run by the constructor on an undamaged archive
\* of distinct names, fails when some sentinel field of some entry has fewer
\* than 8 bytes of zip64 data left, and otherwise gives each entry its
\* 32-bit values, a sentinel replaced by the next 8 bytes of the extra data.
C3_SentinelWidening ==
    (/\ readers[Own].state \in {"ready", "failed"}
     /\ readers[Own].parsed
     /\ archive \in Zip64Archives) =>
        IF \E i \in 1..Len(Written) : ~Stated(i).ok
        THEN readers[Own].state = "failed" /\ readers[Own].error = "zip64_missing"
        ELSE /\ readers[Own].state = "ready"
             /\ \A i \in 1..Len(Written) :
                   Lookup(readers[Own].files, WrittenName(i)) =
                       ZipInfo(WrittenName(i), Stated(i).header_offset,
                               Crc32(Written[i].content), Stated(i).compress_size,
                               Stated(i).file_size)

\* The first and the last place of a name in the directory.
FirstPlace(filename) ==
    CHOOSE i \in 1..Len(Written) :
        /\ WrittenName(i) = filename
        /\ \A j \in 1..(i - 1) : WrittenName(j) # filename

LastPlace(filename) ==
    CHOOSE i \in 1..Len(Written) :
        /\ WrittenName(i) = filename
        /\ \A j \in (i + 1)..Len(Written) : WrittenName(j) # filename

\* C7: for the Index the parser built, names() and entries() are as long as
\* each other and agree on the name at every place; every name of the
\* directory occurs once, in the order in which the scan met the names
\* first; and the entry of a name carries the metadata of the name's last
\* occurrence in the directory.
C7_ScanOrder ==
    \A r \in Readers :
        (readers[r].state = "ready" /\ archive.damage = "none"
                /\ \A i \in 1..Len(Written) : Written[i].wide = {}) =>
            LET names == namelist(readers[r]).items
                infos == infolist(readers[r]).items
            IN  /\ Len(names) = Len(infos)
                /\ \A i \in 1..Len(names) : names[i] = infos[i].filename
                /\ {names[i] : i \in 1..Len(names)}
                      = {WrittenName(i) : i \in 1..Len(Written)}
                /\ \A i, j \in 1..Len(names) :
                      i < j => FirstPlace(names[i]) < FirstPlace(names[j])
                /\ \A i \in 1..Len(infos) :
                      LET last == LastPlace(names[i])
                          e == Written[last]
                      IN  infos[i] =
                              ZipInfo(names[i], HeaderOffset(Written, last),
                                      Crc32(e.content),
                                      Len(Compress(e.method, e.content)),
                                      Len(e.content))

\* A Reader is open on a directory that holds one name at its first and at
\* its last place and another name between them.
C7_Witness ==
    /\ readers[Own].state = "ready"
    /\ archive \in RepeatingArchives
    /\ WrittenName(1) = WrittenName(3)
    /\ WrittenName(1) # WrittenName(2)
    /\ Keys(readers[Own].files) = <<WrittenName(1), WrittenName(2)>>

\* C8: read_files holds no open file object or mapping once it is over; a
\* Reader constructed with the Index it returned has not run the parser; and
\* while that Reader and a Reader that parsed the same file itself are both
\* open, names(), entries(), contains(name) and read(name) give the same on
\* both, for every name, as does whatever a caller was last given.
C8_PrebuiltIndex ==
    /\ built.f # "open" /\ built.m # "open"
    /\ readers[Given].state = "ready" => ~readers[Given].parsed
    /\ (/\ readers[Own].state = "ready" /\ readers[Own].m = "open"
        /\ readers[Given].state = "ready" /\ readers[Given].m = "open") =>
            /\ namelist(readers[Own]) = namelist(readers[Given])
            /\ infolist(readers[Own]) = infolist(readers[Given])
            /\ \A filename \in AskedNames :
                  /\ contains(readers[Own], filename) = contains(readers[Given], filename)
                  /\ read(disk, readers[Own], filename) = read(disk, readers[Given], filename)
            /\ returned.op # "none" =>
                  /\ returned.value = Answer(readers[Own], returned.op, returned.arg)
                  /\ returned.value = Answer(readers[Given], returned.op, returned.arg)

\* Both Readers are open, the second on the Index read_files returned, and
\* a read on the second has given bytes.
C8_Witness ==
    /\ built.state = "returned"
    /\ readers[Own].state = "ready" /\ readers[Own].m = "open"
    /\ readers[Given].state = "ready" /\ readers[Given].m = "open"
    /\ returned.op = "read" /\ returned.reader = Given
    /\ returned.value.error = "none" /\ returned.value.data # <<>>

\* C10: a constructor call that failed has produced no Index and has left no
\* file object and no mapping open.
C10_FailedOpen ==
    \A r \in Readers :
        readers[r].state = "failed" =>
            /\ readers[r].files = <<>>
            /\ readers[r].f # "open"
            /\ readers[r].m # "open"

====
